---- MODULE Spec2Model ----
(***************************************************************************)
(* Model of backend/app/services/data_loader.py: load_dataset with its     *)
(* three column-renaming routines, and the three row filters.              *)
(*                                                                         *)
(* A column name is a sequence of text chunks whose concatenation is the   *)
(* Python string (<<"disorders","sharepopulation">> is                     *)
(* "disorderssharepopulation").  The chunks form a prefix code and the     *)
(* markers the code searches for can only occur chunk-aligned, so          *)
(* str.replace, the `in` test and str.title are computed chunk by chunk.   *)
(* A DataFrame is [columns, index, data]: column labels, row labels and    *)
(* one sequence of cells per row, aligned with columns.                    *)
(***************************************************************************)
EXTENDS Integers, Sequences, FiniteSets, TLC

VARIABLES pc, dataset_id, file, inp, call, df, raised

vars == <<pc, dataset_id, file, inp, call, df, raised>>

\* ---------------------------------------------------------------- bounds
MaxCols == 2
MaxHeaderLen == 5
MaxRows == 2

\* ------------------------------------------------------- sequence helpers
RECURSIVE WordsOfLen(_, _)
\* all sequences over alphabet of length exactly n
WordsOfLen(alphabet, n) ==
    IF n = 0 THEN {<<>>}
    ELSE {<<a>> \o w : a \in alphabet, w \in WordsOfLen(alphabet, n - 1)}

RECURSIVE Headers(_, _, _)
\* all sequences of at most cols non-empty names over alphabet that hold at
\* most chunks chunks in total
Headers(alphabet, cols, chunks) ==
    IF cols = 0 \/ chunks = 0 THEN {<<>>}
    ELSE {<<>>} \cup
         UNION {{<<w>> \o h : w \in WordsOfLen(alphabet, k),
                              h \in Headers(alphabet, cols - 1, chunks - k)} :
                k \in 1..chunks}

RECURSIVE SeqsUpTo(_, _)
\* all sequences over S of length at most n, the empty one included
SeqsUpTo(S, n) ==
    IF n = 0 THEN {<<>>}
    ELSE LET shorter == SeqsUpTo(S, n - 1)
         IN  shorter \cup {<<a>> \o w : a \in S, w \in {x \in shorter : Len(x) = n - 1}}

\* ------------------------------------------------------- Python str model
\* the chunks of cased letters that occur in the names the two title-casing
\* routines handle, in lower case
LowerOf ==
    [c \in {"disorders", "Disorders"} |-> "disorders"] @@
    [c \in {"sharepopulation", "Sharepopulation"} |-> "sharepopulation"] @@
    [c \in {"DALYs", "Dalys", "dalys"} |-> "dalys"] @@
    [c \in {"rateSexBothAgeAgestandardizedCause",
            "Ratesexbothageagestandardizedcause",
            "ratesexbothageagestandardizedcause"} |-> "ratesexbothageagestandardizedcause"]

\* the same chunks with the first letter in upper case and the rest lower
CapitalOf ==
    [c \in {"disorders", "Disorders"} |-> "Disorders"] @@
    [c \in {"sharepopulation", "Sharepopulation"} |-> "Sharepopulation"] @@
    [c \in {"DALYs", "Dalys", "dalys"} |-> "Dalys"] @@
    [c \in {"rateSexBothAgeAgestandardizedCause",
            "Ratesexbothageagestandardizedcause",
            "ratesexbothageagestandardizedcause"} |-> "Ratesexbothageagestandardizedcause"]

\* a chunk of cased letters; every other chunk (".1", " ") has no cased letter
IsCased(c) == c \in DOMAIN LowerOf

RECURSIVE TitleFrom(_, _)
\* str.title(): a cased character is upper-cased when the character before it
\* is not cased and lower-cased when it is; uncased characters are kept
TitleFrom(s, prevCased) ==
    IF s = <<>> THEN <<>>
    ELSE LET c == Head(s)
         IN  IF IsCased(c)
             THEN <<IF prevCased THEN LowerOf[c] ELSE CapitalOf[c]>> \o TitleFrom(Tail(s), TRUE)
             ELSE <<c>> \o TitleFrom(Tail(s), FALSE)

Title(s) == TitleFrom(s, FALSE)

\* old is a prefix of s
StartsWith(s, old) == Len(s) >= Len(old) /\ SubSeq(s, 1, Len(old)) = old

\* s ends with old
EndsWith(s, old) ==
    Len(s) >= Len(old) /\ SubSeq(s, Len(s) - Len(old) + 1, Len(s)) = old

\* Python `old in s`
Contains(s, old) ==
    \E i \in 1..(Len(s) - Len(old) + 1) : SubSeq(s, i, i + Len(old) - 1) = old

RECURSIVE Replace(_, _)
\* s.replace(old, ""): the non-overlapping occurrences of old, found in one
\* left-to-right scan, are removed; the result is not scanned again
Replace(s, old) ==
    IF s = <<>> THEN <<>>
    ELSE IF StartsWith(s, old) THEN Replace(SubSeq(s, Len(old) + 1, Len(s)), old)
    ELSE <<Head(s)>> \o Replace(Tail(s), old)

\* ------------------------------------------------------------ DataFrame
Range(s) == {s[i] : i \in 1..Len(s)}

EmptyDF == [columns |-> <<>>, index |-> <<>>, data |-> <<>>]

\* outcome of a call: the exception raised ("none" when it returned) and the
\* table returned (EmptyDF stands in when an exception left none)
Return(d) == [raised |-> "none", df |-> d]
Raise(exc) == [raised |-> exc, df |-> EmptyDF]

\* position of the column labelled name (0 when there is none)
ColumnPos(d, name) ==
    IF name \in Range(d.columns)
    THEN CHOOSE i \in 1..Len(d.columns) :
             d.columns[i] = name /\ \A j \in 1..(i - 1) : d.columns[j] # name
    ELSE 0

\* df.rename(columns=mapping): a label that is a key of mapping is replaced by
\* its value, every other label, the order, the index and the cells are kept
Rename(d, mapping) ==
    [d EXCEPT !.columns =
        [i \in 1..Len(d.columns) |->
            IF d.columns[i] \in DOMAIN mapping THEN mapping[d.columns[i]]
            ELSE d.columns[i]]]

RECURSIVE Selected(_, _)
\* the positions from i on at which the boolean mask is true, in increasing order
Selected(mask, i) ==
    IF i > Len(mask) THEN <<>>
    ELSE (IF mask[i] THEN <<i>> ELSE <<>>) \o Selected(mask, i + 1)

\* df[mask]: the rows whose mask entry is true, with their labels and cells
Mask(d, mask) ==
    LET sel == Selected(mask, 1)
    IN  [columns |-> d.columns,
         index   |-> [k \in 1..Len(sel) |-> d.index[sel[k]]],
         data    |-> [k \in 1..Len(sel) |-> d.data[sel[k]]]]

\* df[name]: the cells of the column, one per row
Column(d, name) ==
    LET pos == ColumnPos(d, name)
    IN  [i \in 1..Len(d.data) |-> d.data[i][pos]]

\* ------------------------------------------------------------- the files
dataset_mapping ==
    [id \in {"mental-illnesses-prevalence", "burden-disease-mental-illness",
             "depression-prevalence-coverage", "mental-illnesses-coverage",
             "anxiety-treatment-gap", "us-depressive-symptoms",
             "countries-with-data"} |->
       CASE id = "mental-illnesses-prevalence" -> "1- mental-illnesses-prevalence.csv"
         [] id = "burden-disease-mental-illness" -> "2- burden-disease-from-each-mental-illness(1).csv"
         [] id = "depression-prevalence-coverage" -> "3- adult-population-covered-in-primary-data-on-the-prevalence-of-major-depression.csv"
         [] id = "mental-illnesses-coverage" -> "4- adult-population-covered-in-primary-data-on-the-prevalence-of-mental-illnesses.csv"
         [] id = "anxiety-treatment-gap" -> "5- anxiety-disorders-treatment-gap.csv"
         [] id = "us-depressive-symptoms" -> "6- depressive-symptoms-across-us-population.csv"
         [] id = "countries-with-data" -> "7- number-of-countries-with-primary-data-on-prevalence-of-mental-illnesses-in-the-global-burden-of-disease-study.csv"]

PrevalenceMarker == <<"disorders", "sharepopulation">>
BurdenMarker == <<"DALYs", "rateSexBothAgeAgestandardizedCause">>

\* suffixes pandas appends to the 2nd, 3rd, ... column of a repeated header name
DupSuffix == <<".1", ".2", ".3", ".4">>

\* read_csv's header: a name that already occurred k times to its left is
\* labelled name.k, so the labels of the table are distinct
MangleDupes(header) ==
    [i \in 1..Len(header) |->
        LET k == Cardinality({j \in 1..(i - 1) : header[j] = header[i]})
        IN  IF k = 0 THEN header[i] ELSE header[i] \o <<DupSuffix[k]>>]

\* pd.read_csv(file_path) on a path that exists: a file without a header line
\* raises EmptyDataError, any other is a table with the default 0..n-1 index
read_csv(f) ==
    IF f.kind = "empty" THEN Raise("EmptyDataError")
    ELSE Return([columns |-> MangleDupes(f.header),
                 index   |-> [i \in 1..Len(f.rows) |-> i - 1],
                 data    |-> f.rows])

\* --------------------------------------------------- the three transforms
process_prevalence_data(d) ==
    LET column_mapping ==
            [col \in {c \in Range(d.columns) : Contains(c, PrevalenceMarker)} |->
                Title(Replace(col, PrevalenceMarker))]
    IN  Rename(d, column_mapping)

\* the burden routine with the literal suffix forgotten
process_burden_data_nosuffix(d) ==
    LET column_mapping ==
            [col \in {c \in Range(d.columns) : Contains(c, BurdenMarker)} |->
                Title(Replace(col, BurdenMarker))]
    IN  Rename(d, column_mapping)

process_burden_data(d) ==
    LET column_mapping ==
            [col \in {c \in Range(d.columns) : Contains(c, BurdenMarker)} |->
                Title(Replace(col, BurdenMarker)) \o <<"DALYs">>]
    IN  Rename(d, column_mapping)

TreatmentGapMapping ==
    (<<"Potentiallyadequatetreatmentconditional">> :> <<"AdequateTreatment">>) @@
    (<<"Othertreatmentsconditional">> :> <<"OtherTreatments">>) @@
    (<<"Untreatedconditional">> :> <<"Untreated">>)

\* the treatment-gap routine matching by prefix, as the other two match by
\* substring, instead of by the whole label
process_treatment_gap_data_prefix(d) ==
    Rename(d, [col \in {c \in Range(d.columns) : <<Head(c)>> \in DOMAIN TreatmentGapMapping} |->
                  TreatmentGapMapping[<<Head(col)>>]])

process_treatment_gap_data(d) == Rename(d, TreatmentGapMapping)

\* ------------------------------------------------------------ load_dataset
\* load_dataset indexing the mapping without the membership test
load_dataset_keyerror(id, f) ==
    IF id \notin DOMAIN dataset_mapping THEN Raise("KeyError")
    ELSE IF f.kind = "absent" THEN Raise("FileNotFoundError")
    ELSE LET r == read_csv(f)
         IN  IF r.raised # "none" THEN r
             ELSE IF id = "mental-illnesses-prevalence"
                  THEN Return(process_prevalence_data(r.df))
             ELSE IF id = "burden-disease-mental-illness"
                  THEN Return(process_burden_data(r.df))
             ELSE IF id = "anxiety-treatment-gap"
                  THEN Return(process_treatment_gap_data(r.df))
             ELSE r

\* f is the state of the path DATA_DIR / dataset_mapping[id] at the call
load_dataset(id, f) ==
    IF id \notin DOMAIN dataset_mapping THEN Raise("FileNotFoundError")
    ELSE IF f.kind = "absent" THEN Raise("FileNotFoundError")
    ELSE LET r == read_csv(f)
         IN  IF r.raised # "none" THEN r
             ELSE IF id = "mental-illnesses-prevalence"
                  THEN Return(process_prevalence_data(r.df))
             ELSE IF id = "burden-disease-mental-illness"
                  THEN Return(process_burden_data(r.df))
             ELSE IF id = "anxiety-treatment-gap"
                  THEN Return(process_treatment_gap_data(r.df))
             ELSE r

\* ------------------------------------------------- inputs of load_dataset
DatasetIds == DOMAIN dataset_mapping \cup {"nonexistent-id"}

\* the chunks the header names of a file of the dataset are made of
AlphabetOf(id) ==
    CASE id = "mental-illnesses-prevalence" -> {"disorders", "sharepopulation"}
      [] id = "burden-disease-mental-illness" ->
           {"DALYs", "rateSexBothAgeAgestandardizedCause"}
      [] id = "anxiety-treatment-gap" ->
           {"Potentiallyadequatetreatmentconditional",
            "Othertreatmentsconditional", "Untreatedconditional", "Year"}
      [] OTHER -> {"Code", "Year"}

NoFile == [kind |-> "absent", header |-> <<>>, rows |-> <<>>]
EmptyFile == [kind |-> "empty", header |-> <<>>, rows |-> <<>>]

\* a CSV file with the header and one data row whose cells are 1, 2, ...
CsvFile(header) ==
    [kind |-> "csv", header |-> header, rows |-> <<[j \in 1..Len(header) |-> j]>>]

\* states the path an identifier resolves to can be in (an identifier outside
\* the mapping resolves to no path)
FilesOf(id) ==
    IF id \notin DOMAIN dataset_mapping THEN {NoFile}
    ELSE {NoFile, EmptyFile}
           \cup {CsvFile(h) : h \in Headers(AlphabetOf(id), MaxCols, MaxHeaderLen) \ {<<>>}}

NoCall == [op |-> "none", region |-> "", period |-> "", year |-> [str |-> <<>>, int |-> 0, isstr |-> FALSE]]

LoadInit ==
    /\ pc = "call"
    /\ dataset_id \in DatasetIds
    /\ file \in FilesOf(dataset_id)
    /\ inp = EmptyDF
    /\ call = NoCall
    /\ df = EmptyDF
    /\ raised = "none"

LoadDataset ==
    /\ pc = "call"
    /\ LET r == load_dataset(dataset_id, file)
       IN  /\ df' = r.df
           /\ raised' = r.raised
    /\ pc' = "return"
    /\ UNCHANGED <<dataset_id, file, inp, call>>

LoadNext == LoadDataset

LoadSpec == LoadInit /\ [][LoadNext]_vars

\* ------------------------------------------------------- Python int(str)
DigitChars == <<"0", "1", "2", "3", "4", "5", "6", "7", "8", "9">>

IsDigit(c) == \E k \in 1..Len(DigitChars) : DigitChars[k] = c

DigitVal(c) == (CHOOSE k \in 1..Len(DigitChars) : DigitChars[k] = c) - 1

RECURSIVE LStrip(_)
LStrip(s) == IF s # <<>> /\ Head(s) = " " THEN LStrip(Tail(s)) ELSE s

RECURSIVE RStrip(_)
RStrip(s) ==
    IF s # <<>> /\ s[Len(s)] = " " THEN RStrip(SubSeq(s, 1, Len(s) - 1)) ELSE s

RECURSIVE DigitsValue(_, _)
\* value of a run of digits and underscores, read left to right
DigitsValue(s, acc) ==
    IF s = <<>> THEN acc
    ELSE IF Head(s) = "_" THEN DigitsValue(Tail(s), acc)
    ELSE DigitsValue(Tail(s), acc * 10 + DigitVal(Head(s)))

\* digits, with single underscores allowed between two digits
IsDigitBody(s) ==
    /\ s # <<>>
    /\ \A i \in 1..Len(s) : IsDigit(s[i]) \/ s[i] = "_"
    /\ IsDigit(s[1]) /\ IsDigit(s[Len(s)])
    /\ \A i \in 1..(Len(s) - 1) : ~(s[i] = "_" /\ s[i + 1] = "_")

\* int(s): surrounding blanks are dropped, then an optional sign, then the
\* digits; anything else is a ValueError (ok = FALSE)
ParseInt(s) ==
    LET core == RStrip(LStrip(s))
        signed == core # <<>> /\ Head(core) \in {"+", "-"}
        body == IF signed THEN Tail(core) ELSE core
    IN  IF ~IsDigitBody(body) THEN [ok |-> FALSE, val |-> 0]
        ELSE [ok |-> TRUE,
              val |-> IF signed /\ Head(core) = "-" THEN 0 - DigitsValue(body, 0)
                      ELSE DigitsValue(body, 0)]

RECURSIVE NatToStr(_)
NatToStr(n) ==
    IF n < 10 THEN <<DigitChars[n + 1]>>
    ELSE NatToStr(n \div 10) \o <<DigitChars[(n % 10) + 1]>>

\* str(n), the decimal string of the integer n
IntToStr(n) == IF n < 0 THEN <<"-">> \o NatToStr(0 - n) ELSE NatToStr(n)

\* a year argument: an int, or a str given as its sequence of characters
IntYear(n) == [isstr |-> FALSE, str |-> <<>>, int |-> n]
StrYear(s) == [isstr |-> TRUE, str |-> s, int |-> 0]

\* ------------------------------------------------------------ the filters
region_codes ==
    [r \in {"americas", "europe", "asia", "africa", "oceania"} |->
       CASE r = "americas" -> <<"USA", "CAN", "MEX", "BRA", "ARG", "COL", "PER", "CHL", "VEN", "ECU">>
         [] r = "europe" -> <<"GBR", "FRA", "DEU", "ITA", "ESP", "PRT", "NLD", "BEL", "CHE", "AUT">>
         [] r = "asia" -> <<"CHN", "JPN", "IND", "IDN", "PAK", "BGD", "PHL", "VNM", "THA", "MYS">>
         [] r = "africa" -> <<"ZAF", "NGA", "EGY", "DZA", "MAR", "TUN", "LBY", "SDN", "ETH", "KEN">>
         [] r = "oceania" -> <<"AUS", "NZL", "PNG", "FJI", "SLB", "VUT", "WSM", "TON", "KIR", "FSM">>]

\* filter_by_region selecting with ~isin
filter_by_region_negated(d, region) ==
    IF region = "global" THEN Return(d)
    ELSE IF region \notin DOMAIN region_codes THEN Return(d)
    ELSE IF ColumnPos(d, <<"Code">>) = 0 THEN Raise("KeyError")
    ELSE LET code == Column(d, <<"Code">>)
             codes == Range(region_codes[region])
         IN  Return(Mask(d, [i \in 1..Len(code) |-> code[i] \notin codes]))

\* filter_by_region with the mask one row out of step with the table
filter_by_region_shifted(d, region) ==
    IF region = "global" THEN Return(d)
    ELSE IF region \notin DOMAIN region_codes THEN Return(d)
    ELSE IF ColumnPos(d, <<"Code">>) = 0 THEN Raise("KeyError")
    ELSE LET code == Column(d, <<"Code">>)
             codes == Range(region_codes[region])
         IN  Return(Mask(d, [i \in 1..Len(code) |-> i > 1 /\ code[i - 1] \in codes]))

\* filter_by_region raising on a region that is not a key of region_codes
filter_by_region_strict(d, region) ==
    IF region = "global" THEN Return(d)
    ELSE IF region \notin DOMAIN region_codes THEN Raise("KeyError")
    ELSE IF ColumnPos(d, <<"Code">>) = 0 THEN Raise("KeyError")
    ELSE LET code == Column(d, <<"Code">>)
             codes == Range(region_codes[region])
         IN  Return(Mask(d, [i \in 1..Len(code) |-> code[i] \in codes]))

\* df["Code"] raises KeyError on a table without the column
filter_by_region(d, region) ==
    IF region = "global" THEN Return(d)
    ELSE IF region \notin DOMAIN region_codes THEN Return(d)
    ELSE IF ColumnPos(d, <<"Code">>) = 0 THEN Raise("KeyError")
    ELSE LET code == Column(d, <<"Code">>)
             codes == Range(region_codes[region])
         IN  Return(Mask(d, [i \in 1..Len(code) |-> code[i] \in codes]))

\* filter_by_year followed by reset_index(drop=True): rows relabelled 0, 1, ...
filter_by_year_reset(d, year) ==
    LET parsed == IF year.isstr THEN ParseInt(year.str) ELSE [ok |-> TRUE, val |-> year.int]
    IN  IF ~parsed.ok THEN Raise("ValueError")
        ELSE IF ColumnPos(d, <<"Year">>) = 0 THEN Raise("KeyError")
        ELSE LET col == Column(d, <<"Year">>)
                 kept == Mask(d, [i \in 1..Len(col) |-> col[i] = parsed.val])
             IN  Return([kept EXCEPT !.index = [k \in 1..Len(kept.index) |-> k - 1]])

\* filter_by_year comparing the column with the argument as given: no cell of
\* an integer column equals a str
filter_by_year_noparse(d, year) ==
    IF ColumnPos(d, <<"Year">>) = 0 THEN Raise("KeyError")
    ELSE LET col == Column(d, <<"Year">>)
         IN  Return(Mask(d, [i \in 1..Len(col) |-> ~year.isstr /\ col[i] = year.int]))

\* int(year) is evaluated, and may raise ValueError, before df["Year"] is
filter_by_year(d, year) ==
    LET parsed == IF year.isstr THEN ParseInt(year.str) ELSE [ok |-> TRUE, val |-> year.int]
    IN  IF ~parsed.ok THEN Raise("ValueError")
        ELSE IF ColumnPos(d, <<"Year">>) = 0 THEN Raise("KeyError")
        ELSE LET col == Column(d, <<"Year">>)
             IN  Return(Mask(d, [i \in 1..Len(col) |-> col[i] = parsed.val]))

current_year == 2023

\* df[df["Year"] >= threshold]
SinceYear(d, threshold) ==
    IF ColumnPos(d, <<"Year">>) = 0 THEN Raise("KeyError")
    ELSE LET col == Column(d, <<"Year">>)
         IN  Return(Mask(d, [i \in 1..Len(col) |-> col[i] >= threshold]))

\* filter_by_period with the window one year short
filter_by_period_short(d, period) ==
    IF period = "all" THEN Return(d)
    ELSE IF period = "recent" THEN SinceYear(d, current_year - 4)
    ELSE IF period = "decade" THEN SinceYear(d, current_year - 9)
    ELSE Return(d)

filter_by_period(d, period) ==
    IF period = "all" THEN Return(d)
    ELSE IF period = "recent" THEN SinceYear(d, current_year - 5)
    ELSE IF period = "decade" THEN SinceYear(d, current_year - 10)
    ELSE Return(d)

\* --------------------------------------------------- inputs of the filters
RegionArgs == DOMAIN region_codes \cup {"global", "antarctica"}
PeriodArgs == {"all", "recent", "decade", "month"}
YearInts == {2018, 0 - 2018}
YearStrs ==
    {IntToStr(n) : n \in YearInts}
      \cup {<<" ", "+", "2", "0", "1", "8", " ">>, <<"2", "_", "0", "1", "8">>,
            <<"2", "0", "x", "8">>, <<>>, <<"2", "0", "1", "8", ".", "0">>}
YearArgs == {IntYear(n) : n \in YearInts} \cup {StrYear(s) : s \in YearStrs}

CodeVals == {"USA", "GBR", "XKX"}
YearVals == {2012, 2013, 2017, 2018}

FilterHeaders == {<<<<"Code">>, <<"Year">>>>, <<<<"Code">>>>, <<<<"Year">>>>}

\* the values a cell of the column may hold
ValsOf(name) == IF name = <<"Code">> THEN CodeVals ELSE YearVals

RECURSIVE RowsOf(_)
\* the rows a table with the header may hold
RowsOf(header) ==
    IF header = <<>> THEN {<<>>}
    ELSE {<<v>> \o rest : v \in ValsOf(Head(header)), rest \in RowsOf(Tail(header))}

FilterInit ==
    /\ pc = "call"
    /\ dataset_id = ""
    /\ file = NoFile
    /\ inp = EmptyDF
    /\ call = NoCall
    /\ raised = "none"
    /\ \E header \in FilterHeaders :
         \E rows \in SeqsUpTo(RowsOf(header), MaxRows) :
            df = [columns |-> header,
                  index   |-> [i \in 1..Len(rows) |-> i - 1],
                  data    |-> rows]

\* the caller passes the table it holds and keeps what the call returns
Apply(c, r) ==
    /\ raised = "none"
    /\ inp' = df
    /\ call' = c
    /\ df' = r.df
    /\ raised' = r.raised
    /\ pc' = "return"
    /\ UNCHANGED <<dataset_id, file>>

FilterByRegion ==
    \E region \in RegionArgs :
        Apply([NoCall EXCEPT !.op = "filter_by_region", !.region = region],
              filter_by_region(df, region))

FilterByYear ==
    \E year \in YearArgs :
        Apply([NoCall EXCEPT !.op = "filter_by_year", !.year = year],
              filter_by_year(df, year))

FilterByPeriod ==
    \E period \in PeriodArgs :
        Apply([NoCall EXCEPT !.op = "filter_by_period", !.period = period],
              filter_by_period(df, period))

Next == FilterByRegion \/ FilterByYear \/ FilterByPeriod

Init == FilterInit

Spec == Init /\ [][Next]_vars

\* ---------------------------------------------------- claims on load_dataset
Returned == pc = "return" /\ raised = "none"

\* the labels of the table read_csv hands to the transform
ReadColumns == MangleDupes(file.header)

\* C1 as stated: load fails with FileNotFoundError exactly when the identifier
\* is outside the mapping or its file does not exist, and returns a table,
\* raising nothing, for every identifier of the mapping whose file exists.
C1_LoadFailsExactlyWhenMissing ==
    pc = "return" =>
        /\ raised = "FileNotFoundError"
             <=> (dataset_id \notin DOMAIN dataset_mapping \/ file.kind = "absent")
        /\ (dataset_id \in DOMAIN dataset_mapping /\ file.kind # "absent")
             => raised = "none"

\* C1 amended: load fails with FileNotFoundError exactly when the identifier is
\* outside the 7-key mapping or its file does not exist, and then returns no
\* table; for every identifier of the mapping whose file exists and has a
\* header line, load returns a table and raises nothing.
C1_LoadNotFound ==
    pc = "return" =>
        /\ raised = "FileNotFoundError"
             <=> (dataset_id \notin DOMAIN dataset_mapping \/ file.kind = "absent")
        /\ raised = "FileNotFoundError" => df = EmptyDF
        /\ Cardinality(DOMAIN dataset_mapping) = 7
        /\ (dataset_id \in DOMAIN dataset_mapping /\ file.kind = "csv")
             => /\ raised = "none"
                /\ Len(df.columns) = Len(file.header)
                /\ Len(df.data) = Len(file.rows)

C1_Witness ==
    /\ pc = "return"
    /\ dataset_id = "nonexistent-id"
    /\ raised = "FileNotFoundError"

\* C2: the table load("mental-illnesses-prevalence") returns has no column
\* whose name contains "disorderssharepopulation", whatever the header was.
C2_NoPrevalenceMarkerLeft ==
    (Returned /\ dataset_id = "mental-illnesses-prevalence") =>
        \A i \in 1..Len(df.columns) : ~Contains(df.columns[i], PrevalenceMarker)

\* C3: load("burden-disease-mental-illness") renames every column containing
\* "DALYsrateSexBothAgeAgestandardizedCause" to the name with the substring
\* removed, title-cased, followed by "DALYs", so it ends in "DALYs"; every
\* other column keeps its name.
C3_BurdenRename ==
    (Returned /\ dataset_id = "burden-disease-mental-illness") =>
        /\ Len(df.columns) = Len(ReadColumns)
        /\ \A i \in 1..Len(ReadColumns) :
              IF Contains(ReadColumns[i], BurdenMarker)
              THEN /\ df.columns[i] = Title(Replace(ReadColumns[i], BurdenMarker)) \o <<"DALYs">>
                   /\ EndsWith(df.columns[i], <<"DALYs">>)
              ELSE df.columns[i] = ReadColumns[i]

C3_Witness ==
    /\ Returned
    /\ dataset_id = "burden-disease-mental-illness"
    /\ \E i, j \in 1..Len(ReadColumns) :
          /\ Contains(ReadColumns[i], BurdenMarker)
          /\ Len(df.columns[i]) > 1
          /\ ~Contains(ReadColumns[j], BurdenMarker)
          /\ df.columns[j] = ReadColumns[j]

FixedGapColumns ==
    {<<"Potentiallyadequatetreatmentconditional">>,
     <<"Othertreatmentsconditional">>, <<"Untreatedconditional">>}

\* C4: load("anxiety-treatment-gap") renames exactly the three fixed columns,
\* each when present, to AdequateTreatment, OtherTreatments and Untreated, and
\* leaves every other column name, the column order and the row values alone.
C4_TreatmentGapRename ==
    (Returned /\ dataset_id = "anxiety-treatment-gap") =>
        /\ Len(df.columns) = Len(ReadColumns)
        /\ \A i \in 1..Len(ReadColumns) :
              /\ ReadColumns[i] = <<"Potentiallyadequatetreatmentconditional">>
                    => df.columns[i] = <<"AdequateTreatment">>
              /\ ReadColumns[i] = <<"Othertreatmentsconditional">>
                    => df.columns[i] = <<"OtherTreatments">>
              /\ ReadColumns[i] = <<"Untreatedconditional">>
                    => df.columns[i] = <<"Untreated">>
              /\ ReadColumns[i] \notin FixedGapColumns
                    => df.columns[i] = ReadColumns[i]
        /\ df.data = file.rows
        /\ Len(df.index) = Len(file.rows)

C4_Witness ==
    /\ Returned
    /\ dataset_id = "anxiety-treatment-gap"
    /\ Len(df.columns) = 2
    /\ ReadColumns[1] = <<"Untreatedconditional">>
    /\ df.columns[1] = <<"Untreated">>
    /\ ReadColumns[2] = <<"Untreatedconditional", ".1">>
    /\ df.columns[2] = ReadColumns[2]
    /\ Len(df.data) > 0

\* ---------------------------------------------------- claims on the filters
HasColumn(d, name) == name \in Range(d.columns)

Called(op) == pc = "return" /\ call.op = op

\* position in d of the row labelled label
RowOfLabel(d, label) == CHOOSE i \in 1..Len(d.index) : d.index[i] = label

\* labels of the rows of d whose cell in the column is in vals
LabelsWhere(d, name, vals) ==
    {d.index[i] : i \in {j \in 1..Len(d.data) : d.data[j][ColumnPos(d, name)] \in vals}}

\* out holds exactly the rows of in labelled in labels, with all their cells,
\* in the order they have in in
KeptExactly(in, out, labels) ==
    /\ out.columns = in.columns
    /\ Len(out.index) = Len(out.data)
    /\ Range(out.index) = labels
    /\ \A k \in 1..Len(out.index) :
          \E i \in 1..Len(in.index) :
              in.index[i] = out.index[k] /\ in.data[i] = out.data[k]
    /\ \A k, l \in 1..Len(out.index) :
          k < l => RowOfLabel(in, out.index[k]) < RowOfLabel(in, out.index[l])

AmericasCodes == {"USA", "CAN", "MEX", "BRA", "ARG", "COL", "PER", "CHL", "VEN", "ECU"}

\* C5: for a table with a Code column and a region of the 5-region set,
\* filterByRegion returns exactly the rows whose Code is in the region's
\* 10-entry list, in their order and with all columns; for "americas" these
\* are the rows whose Code is one of USA ... ECU.
C5_RegionKeepsExactlyMembers ==
    (Called("filter_by_region")
        /\ call.region \in {"americas", "europe", "asia", "africa", "oceania"}
        /\ HasColumn(inp, <<"Code">>)) =>
        LET pos == ColumnPos(inp, <<"Code">>)
        IN  /\ raised = "none"
            /\ Len(region_codes[call.region]) = 10
            /\ KeptExactly(inp, df, LabelsWhere(inp, <<"Code">>, Range(region_codes[call.region])))
            /\ call.region = "americas" =>
                  \A k \in 1..Len(df.data) : df.data[k][pos] \in AmericasCodes

C5_Witness ==
    /\ Called("filter_by_region")
    /\ call.region = "americas"
    /\ HasColumn(inp, <<"Code">>)
    /\ Len(inp.data) = 2
    /\ Len(df.data) = 1
    /\ df.index = <<1>>

\* C6: for any table, with or without a Code column, filterByRegion returns
\* the table unchanged and raises nothing when region is "global" or is not
\* one of the 5 recognized regions.
C6_RegionNoOp ==
    (Called("filter_by_region") /\ call.region \notin DOMAIN region_codes) =>
        /\ raised = "none"
        /\ df = inp

C6_Witness ==
    /\ Called("filter_by_region")
    /\ call.region = "antarctica"
    /\ ~HasColumn(inp, <<"Code">>)
    /\ Len(inp.data) > 0
    /\ df = inp

NonNumericStrs == {<<"2", "0", "x", "8">>, <<>>, <<"2", "0", "1", "8", ".", "0">>}

\* C7: for a table with a Year column and an integer n, filterByYear with the
\* decimal string of n returns the same table as with n, exactly the rows
\* whose Year equals n; with a string that is not an integer it fails with
\* ValueError and returns no table.
C7_YearStringEqualsInt ==
    (Called("filter_by_year") /\ HasColumn(inp, <<"Year">>)) =>
        /\ ~call.year.isstr =>
              /\ raised = "none"
              /\ KeptExactly(inp, df, LabelsWhere(inp, <<"Year">>, {call.year.int}))
              /\ filter_by_year(inp, StrYear(IntToStr(call.year.int))) = Return(df)
        /\ (call.year.isstr /\ call.year.str \in NonNumericStrs) =>
              /\ raised = "ValueError"
              /\ df = EmptyDF

C7_Witness ==
    /\ Called("filter_by_year")
    /\ HasColumn(inp, <<"Year">>)
    /\ call.year = StrYear(<<"2", "0", "1", "8">>)
    /\ raised = "none"
    /\ Len(inp.data) = 2
    /\ Len(df.data) = 1

\* C8: for a table with a Year column, filterByPeriod "recent" returns exactly
\* the rows with Year >= 2018 and "decade" exactly those with Year >= 2013;
\* "all" and any other period return the table unchanged.
C8_PeriodWindows ==
    (Called("filter_by_period") /\ HasColumn(inp, <<"Year">>)) =>
        /\ raised = "none"
        /\ \A i \in 1..Len(inp.data) : Column(inp, <<"Year">>)[i] \in YearVals
        /\ call.period = "recent" => KeptExactly(inp, df, LabelsWhere(inp, <<"Year">>, {y \in YearVals : y >= 2018}))
        /\ call.period = "decade" => KeptExactly(inp, df, LabelsWhere(inp, <<"Year">>, {y \in YearVals : y >= 2013}))
        /\ call.period \notin {"recent", "decade"} => df = inp

C8_Witness ==
    /\ Called("filter_by_period")
    /\ call.period = "recent"
    /\ HasColumn(inp, <<"Year">>)
    /\ \E i \in 1..Len(inp.data) : inp.data[i][ColumnPos(inp, <<"Year">>)] = 2017
    /\ Len(df.data) = 1
    /\ df.data[1][ColumnPos(df, <<"Year">>)] = 2018

\* C9: filterByRegion is idempotent: on a table with a Code column, filtering
\* the result of filterByRegion(t, r) by r again returns that result.
C9_RegionIdempotent ==
    (Called("filter_by_region") /\ HasColumn(inp, <<"Code">>)) =>
        /\ raised = "none"
        /\ filter_by_region(df, call.region) = Return(df)

C9_Witness ==
    /\ Called("filter_by_region")
    /\ call.region = "europe"
    /\ HasColumn(inp, <<"Code">>)
    /\ Len(inp.data) = 2
    /\ Len(df.data) = 1

\* the outcome of a call followed by another; an exception ends the chain
ThenRegion(r, region) == IF r.raised # "none" THEN r ELSE filter_by_region(r.df, region)
ThenYear(r, year) == IF r.raised # "none" THEN r ELSE filter_by_year(r.df, year)
ThenPeriod(r, period) == IF r.raised # "none" THEN r ELSE filter_by_period(r.df, period)

\* the three filters applied to d in each of the six orders
SixOrders(d, region, year, period) ==
    <<ThenPeriod(ThenYear(filter_by_region(d, region), year), period),
      ThenYear(ThenPeriod(filter_by_region(d, region), period), year),
      ThenPeriod(ThenRegion(filter_by_year(d, year), region), period),
      ThenRegion(ThenPeriod(filter_by_year(d, year), period), region),
      ThenYear(ThenRegion(filter_by_period(d, period), region), year),
      ThenRegion(ThenYear(filter_by_period(d, period), year), region)>>

====
